---- MODULE Spec2Model ----
(***************************************************************************)
(* A model of blocklang-installer: the installer store of config.rs        *)
(* (add_installer, remove_installer, get_installer_by_port, save_to,        *)
(* read_from, get), alone and shared by two processes, the artifact cache   *)
(* of lib.rs (download) and the archive extractor of lib.rs (unzip_to,      *)
(* unzip_file).  Each component has its own specification; the variables    *)
(* of the other components stay at their initial values.                    *)
(***************************************************************************)
EXTENDS Integers, Sequences, FiniteSets, TLC

VARIABLES
    server_token,   \* Config.server_token                    (config.rs:21)
    installers,     \* Config.installers : Vec<InstallerConfig> (config.rs:22)
    config_file,    \* content of config.toml, or NoFile
    store_call,     \* the last call made on the store, with its result
    adds_fresh,     \* history: every add_installer so far had a new token and port
    dl_dirs,        \* the directories under softwares/ that exist
    dl_files,       \* the files under softwares/: path -> content
    requests,       \* the HTTP GETs issued so far
    dl_call,        \* the last download call, with its result
    uz_fs,          \* the working directory tree of unzip_to: path -> node
    uz_call,        \* the last unzip_to call, with its result
    first_token,    \* history: the server_token the first get() returned
    pc,             \* two installer processes: where each one is
    proc_config,    \* two installer processes: the Config each one holds
    proc_load,      \* two installer processes: what the get() of each returned
    persisted       \* history: the documents some process has written in full

store_vars == <<server_token, installers, config_file, store_call, adds_fresh>>

dl_vars == <<dl_dirs, dl_files, requests, dl_call>>

uz_vars == <<uz_fs, uz_call>>

proc_vars == <<pc, proc_config, proc_load, persisted>>

vars == <<store_vars, dl_vars, uz_vars, first_token, proc_vars>>

\* What a call on one component leaves alone: the other components.
not_store_vars == <<dl_vars, uz_vars, first_token, proc_vars>>

not_dl_vars == <<store_vars, uz_vars, first_token, proc_vars>>

not_uz_vars == <<store_vars, dl_vars, first_token, proc_vars>>

----------------------------------------------------------------------------
(* Bounds *)

MaxInstallers == 3

MaxRequests == 3

MaxEntries == 3

MaxSaved == 2

----------------------------------------------------------------------------
(* Installer store: config.rs *)

\* The tokens and ports the control plane hands out (the tests' "2"/"22", 6/66).
InstallerTokens == {"2", "22"}

AppRunPorts == {6, 66}

\* InstallerInfo, as built in the tests: nine fields, all different values.
InstallerInfoOf(token, port) ==
    [url |-> "1", installer_token |-> token, app_name |-> "3",
     app_version |-> "4", app_file_name |-> "5", app_run_port |-> port,
     jdk_name |-> "7", jdk_version |-> "8", jdk_file_name |-> "9"]

InstallerInfos ==
    {InstallerInfoOf(token, port) : token \in InstallerTokens, port \in AppRunPorts}

\* Mutant of InstallerConfig: the token field is filled from the url.
InstallerConfigTokenFromUrl(installer_info) ==
    [url             |-> installer_info.url,
     installer_token |-> installer_info.url,
     app_name        |-> installer_info.app_name,
     app_version     |-> installer_info.app_version,
     app_file_name   |-> installer_info.app_file_name,
     app_run_port    |-> installer_info.app_run_port,
     jdk_name        |-> installer_info.jdk_name,
     jdk_version     |-> installer_info.jdk_version,
     jdk_file_name   |-> installer_info.jdk_file_name]

\* The record add_installer builds from an InstallerInfo, field for field.
InstallerConfig(installer_info) ==
    [url             |-> installer_info.url,
     installer_token |-> installer_info.installer_token,
     app_name        |-> installer_info.app_name,
     app_version     |-> installer_info.app_version,
     app_file_name   |-> installer_info.app_file_name,
     app_run_port    |-> installer_info.app_run_port,
     jdk_name        |-> installer_info.jdk_name,
     jdk_version     |-> installer_info.jdk_version,
     jdk_file_name   |-> installer_info.jdk_file_name]

\* Mutant of PushInstaller: the record is inserted at the front (insert(0, ..)).
PushInstallerFront(list, installer_info) ==
    <<[url             |-> installer_info.url,
       installer_token |-> installer_info.installer_token,
       app_name        |-> installer_info.app_name,
       app_version     |-> installer_info.app_version,
       app_file_name   |-> installer_info.app_file_name,
       app_run_port    |-> installer_info.app_run_port,
       jdk_name        |-> installer_info.jdk_name,
       jdk_version     |-> installer_info.jdk_version,
       jdk_file_name   |-> installer_info.jdk_file_name]>> \o list

\* Vec::push of the new record.
PushInstaller(list, installer_info) == Append(list, InstallerConfig(installer_info))

\* iter().position(|item| item.installer_token == installer_token): the lowest
\* index that matches, 0 for None.
Position(list, installer_token) ==
    IF \E i \in 1..Len(list) : list[i].installer_token = installer_token
    THEN CHOOSE i \in 1..Len(list) :
            /\ list[i].installer_token = installer_token
            /\ \A j \in 1..(i - 1) : list[j].installer_token # installer_token
    ELSE 0

\* Mutant of RemoveAt: the last element is dropped (pop) whatever the index.
RemoveAtPop(list, index) == [i \in 1..(Len(list) - 1) |-> list[i]]

\* Vec::remove(index): the elements after index shift down by one.
RemoveAt(list, index) ==
    [i \in 1..(Len(list) - 1) |-> IF i < index THEN list[i] ELSE list[i + 1]]

\* Mutant of RemoveInstaller: no match removes the first record
\* (position(..).unwrap_or(0)).
RemoveInstallerOrFirst(list, installer_token) ==
    IF list = <<>> THEN list
    ELSE IF \E i \in 1..Len(list) : list[i].installer_token = installer_token
    THEN [i \in 1..(Len(list) - 1) |->
            IF \E j \in 1..i : list[j].installer_token = installer_token
            THEN list[i + 1] ELSE list[i]]
    ELSE Tail(list)

\* The installer list after remove_installer.
RemoveInstaller(list, installer_token) ==
    IF Position(list, installer_token) = 0
    THEN list
    ELSE RemoveAt(list, Position(list, installer_token))

NoInstaller == [none |-> TRUE]

\* Mutant of get_installer_by_port: only the first record is looked at.
get_installer_by_port_first(list, app_run_port) ==
    IF list # <<>> /\ list[1].app_run_port = app_run_port
    THEN list[1]
    ELSE [none |-> TRUE]

\* Mutant of get_installer_by_port: the scan runs from the end (rev().find_map).
get_installer_by_port_last(list, app_run_port) ==
    IF \E i \in 1..Len(list) : list[i].app_run_port = app_run_port
    THEN list[CHOOSE i \in 1..Len(list) :
                /\ list[i].app_run_port = app_run_port
                /\ \A j \in (i + 1)..Len(list) : list[j].app_run_port # app_run_port]
    ELSE [none |-> TRUE]

\* find_map over the list: the first record bound to the port, or None.
get_installer_by_port(list, app_run_port) ==
    IF \E i \in 1..Len(list) : list[i].app_run_port = app_run_port
    THEN list[CHOOSE i \in 1..Len(list) :
                /\ list[i].app_run_port = app_run_port
                /\ \A j \in 1..(i - 1) : list[j].app_run_port # app_run_port]
    ELSE NoInstaller

\* toml::to_vec(&config): the document as its lines.  A key/value line is
\* <<"kv", key, value>>; an empty Vec is the inline array `installers = []`,
\* a non-empty one is one [[installers]] table per record.
TomlTable(installer) ==
    << <<"aot", "installers">>,
       <<"kv", "url", installer.url>>,
       <<"kv", "installer_token", installer.installer_token>>,
       <<"kv", "app_name", installer.app_name>>,
       <<"kv", "app_version", installer.app_version>>,
       <<"kv", "app_file_name", installer.app_file_name>>,
       <<"kv", "app_run_port", installer.app_run_port>>,
       <<"kv", "jdk_name", installer.jdk_name>>,
       <<"kv", "jdk_version", installer.jdk_version>>,
       <<"kv", "jdk_file_name", installer.jdk_file_name>> >>

RECURSIVE TomlTables(_)
TomlTables(list) ==
    IF list = <<>> THEN <<>>
    ELSE TomlTable(Head(list)) \o TomlTables(Tail(list))

\* Mutant of TomlOf: only the first record is written.
TomlOfFirstOnly(token, list) ==
    << <<"kv", "server_token", token>> >>
    \o (IF list = <<>> THEN << <<"kv", "installers", <<>> >> >>
        ELSE TomlTable(Head(list)))

TomlOf(token, list) ==
    << <<"kv", "server_token", token>> >>
    \o (IF list = <<>> THEN << <<"kv", "installers", <<>> >> >>
        ELSE TomlTables(list))

NoFile == <<"absent">>

NoInfo == [none |-> TRUE]

\* A call on the store: its arguments, its result, and the installer list it
\* was made on.
StoreCall(op, info, token, result) ==
    [op |-> op, info |-> info, token |-> token, result |-> result,
     before |-> installers]

\* Whether neither the token nor the port of the info occurs in the list.
IsFresh(list, installer_info) ==
    \A i \in 1..Len(list) :
        /\ list[i].installer_token # installer_info.installer_token
        /\ list[i].app_run_port # installer_info.app_run_port

StoreInit ==
    /\ server_token = "1"
    /\ installers = <<>>
    /\ config_file = NoFile
    /\ store_call = [op |-> "none", info |-> NoInfo, token |-> "", result |-> "Ok",
                     before |-> <<>>]
    /\ adds_fresh = TRUE

\* add_installer(&mut config_info, installer_info)
add_installer(installer_info) ==
    /\ Len(installers) < MaxInstallers
    /\ installers' = PushInstaller(installers, installer_info)
    /\ adds_fresh' = (adds_fresh /\ IsFresh(installers, installer_info))
    /\ store_call' = StoreCall("add_installer", installer_info, "", "Ok")
    /\ UNCHANGED <<server_token, config_file, not_store_vars>>

\* remove_installer(&mut config_info, installer_token)
remove_installer(installer_token) ==
    /\ installers' = RemoveInstaller(installers, installer_token)
    /\ store_call' = StoreCall("remove_installer", NoInfo, installer_token, "Ok")
    /\ UNCHANGED <<server_token, config_file, adds_fresh, not_store_vars>>

\* save_to(config, file_name): File::create truncates, write_all writes it all.
save_to(token, list) == TomlOf(token, list)

\* The registrar (spec section 4.4), from the point where the artifacts are
\* fetched and extracted (steps 1-2, which do not touch the store; a run that
\* fails there never reaches it): step 3 checks the port, step 4 adds the
\* record, step 5 persists the store.
register(installer_info) ==
    /\ UNCHANGED not_store_vars
    /\ IF get_installer_by_port(installers, installer_info.app_run_port) # NoInstaller
       THEN /\ store_call' = StoreCall("register", installer_info, "", "Conflict")
            /\ UNCHANGED <<server_token, installers, config_file, adds_fresh>>
       ELSE /\ Len(installers) < MaxInstallers
            /\ installers' = PushInstaller(installers, installer_info)
            /\ adds_fresh' = (adds_fresh /\ IsFresh(installers, installer_info))
            /\ config_file' = save_to(server_token, installers')
            /\ store_call' = StoreCall("register", installer_info, "", "Ok")
            /\ UNCHANGED server_token

StoreNext ==
    \/ \E installer_info \in InstallerInfos : add_installer(installer_info)
    \/ \E installer_token \in InstallerTokens \cup {"not-existed"} :
            remove_installer(installer_token)
    \/ \E installer_info \in InstallerInfos : register(installer_info)

\* The ports looked up: the ones installers are bound to and one that is free.
LookupPorts == AppRunPorts \cup {8080}

\* get_installer_by_port(&config_info, app_run_port): the Config is borrowed
\* and read, the Option is handed back to the caller.
find_installer(app_run_port) ==
    /\ store_call' = [op |-> "get_installer_by_port", info |-> NoInfo,
                      token |-> "", port |-> app_run_port,
                      result |-> get_installer_by_port(installers, app_run_port),
                      before |-> installers]
    /\ UNCHANGED <<server_token, installers, config_file, adds_fresh,
                   not_store_vars>>

LookupNext ==
    \/ \E installer_info \in InstallerInfos : add_installer(installer_info)
    \/ \E installer_token \in InstallerTokens : remove_installer(installer_token)
    \/ \E app_run_port \in LookupPorts : find_installer(app_run_port)

----------------------------------------------------------------------------
(* Persistence of the store: save, read_from and get, config.rs *)

\* The keys of one [[installers]] table: the fields of InstallerConfig.
InstallerKeys ==
    {"url", "installer_token", "app_name", "app_version", "app_file_name",
     "app_run_port", "jdk_name", "jdk_version", "jdk_file_name"}

\* The lines of a block that give a value to the key.
KeyLines(lines, key) ==
    {i \in 1..Len(lines) : lines[i][1] = "kv" /\ lines[i][2] = key}

\* A field is read from the one line that gives it; a key given twice is a
\* TOML error, a key not given is serde's "missing field".
HasKey(lines, key) == Cardinality(KeyLines(lines, key)) = 1

ValueOf(lines, key) == lines[CHOOSE i \in KeyLines(lines, key) : TRUE][3]

\* The index of the first [[..]] header of the lines, Len + 1 when there is none.
FirstHeader(lines) ==
    IF \E i \in 1..Len(lines) : lines[i][1] = "aot"
    THEN CHOOSE i \in 1..Len(lines) :
            /\ lines[i][1] = "aot"
            /\ \A j \in 1..(i - 1) : lines[j][1] # "aot"
    ELSE Len(lines) + 1

MalformedTable == [malformed |-> TRUE]

\* Mutant of DecodeTable: app_name is read from the app_file_name line.
DecodeTableNameFromFile(block) ==
    IF \A key \in InstallerKeys : HasKey(block, key)
    THEN [url             |-> ValueOf(block, "url"),
          installer_token |-> ValueOf(block, "installer_token"),
          app_name        |-> ValueOf(block, "app_file_name"),
          app_version     |-> ValueOf(block, "app_version"),
          app_file_name   |-> ValueOf(block, "app_file_name"),
          app_run_port    |-> ValueOf(block, "app_run_port"),
          jdk_name        |-> ValueOf(block, "jdk_name"),
          jdk_version     |-> ValueOf(block, "jdk_version"),
          jdk_file_name   |-> ValueOf(block, "jdk_file_name")]
    ELSE MalformedTable

\* Deserialize of InstallerConfig from the lines of one table: every field by
\* its key.
DecodeTable(block) ==
    IF \A key \in InstallerKeys : HasKey(block, key)
    THEN [url             |-> ValueOf(block, "url"),
          installer_token |-> ValueOf(block, "installer_token"),
          app_name        |-> ValueOf(block, "app_name"),
          app_version     |-> ValueOf(block, "app_version"),
          app_file_name   |-> ValueOf(block, "app_file_name"),
          app_run_port    |-> ValueOf(block, "app_run_port"),
          jdk_name        |-> ValueOf(block, "jdk_name"),
          jdk_version     |-> ValueOf(block, "jdk_version"),
          jdk_file_name   |-> ValueOf(block, "jdk_file_name")]
    ELSE MalformedTable

\* The tables of a document from its first header on, in document order.
RECURSIVE DecodeTables(_)
DecodeTables(lines) ==
    IF lines = <<>> THEN <<>>
    ELSE <<DecodeTable(SubSeq(Tail(lines), 1, FirstHeader(Tail(lines)) - 1))>>
         \o DecodeTables(SubSeq(Tail(lines), FirstHeader(Tail(lines)),
                                Len(Tail(lines))))

\* What a load returns: Ok(Config) or Err.
LoadOk(token, list) == [error |-> "", server_token |-> token, installers |-> list]

LoadErr(kind) == [error |-> kind, server_token |-> "", installers |-> <<>>]

\* The Config of the top-level lines and the decoded tables.
ConfigOf(top, tables) ==
    IF ~HasKey(top, "server_token") THEN LoadErr("Malformed")
    ELSE IF tables = <<>>
    THEN IF HasKey(top, "installers")
         THEN LoadOk(ValueOf(top, "server_token"), ValueOf(top, "installers"))
         ELSE LoadErr("Malformed")
    ELSE IF HasKey(top, "installers")
            \/ \E i \in 1..Len(tables) : tables[i] = MalformedTable
    THEN LoadErr("Malformed")
    ELSE LoadOk(ValueOf(top, "server_token"), tables)

\* toml::from_str::<Config>(&contents): both fields are required, so the empty
\* document is an error.
FromStr(lines) ==
    ConfigOf(SubSeq(lines, 1, FirstHeader(lines) - 1),
             DecodeTables(SubSeq(lines, FirstHeader(lines), Len(lines))))

\* read_from(file_name): File::open fails on a missing file; the content is
\* parsed as it is found.
read_from(file) ==
    IF file = NoFile THEN LoadErr("NotFound") ELSE FromStr(file)

\* The identifiers net::get_interface_address() may find on the host.
MacAddresses == {"mac-1", "mac-2"}

NoToken == ""

\* The Configs handed to save_to: the tests' server_1/server_2, with up to
\* MaxSaved records.
ServerTokens == {"server_1", "server_2"}

SavedInfos == {InstallerInfoOf("2", 6), InstallerInfoOf("22", 66)}

SavedLists ==
    UNION {[1..n -> {InstallerConfig(installer_info) : installer_info \in SavedInfos}] :
            n \in 0..MaxSaved}

Configs == [server_token : ServerTokens, installers : SavedLists]

\* Mutant of CreateFile: a file that exists is opened as it is (no O_TRUNC).
CreateFileKeep(file) == IF file = <<"absent">> THEN <<>> ELSE file

\* File::create(file_name): the file is created, or truncated when it exists.
CreateFile(file) == <<>>

\* write_all on a file just opened: the bytes go to offset 0 and what the
\* file holds beyond them stays.
WriteAll(file, content) ==
    content \o SubSeq(file, Len(content) + 1, Len(file))

\* The document the last save_to call replaced, kept through the loads that
\* follow the call.
Overwrote(call) ==
    IF call.op \in {"save_to", "read_from"} THEN call.overwrote ELSE NoFile

\* save_to(config, CONFIG_FILE_NAME) of a Config the caller built.  The call
\* consumes the Config; the one the caller loaded earlier is not touched.
save_config(config) ==
    /\ config_file' = WriteAll(CreateFile(config_file),
                               save_to(config.server_token, config.installers))
    /\ store_call' = [op |-> "save_to", info |-> NoInfo,
                      token |-> config.server_token, result |-> "Ok",
                      before |-> config.installers, overwrote |-> config_file]
    /\ UNCHANGED <<server_token, installers, adds_fresh, not_store_vars>>

\* read(): read_from(CONFIG_FILE_NAME); the caller holds the Config returned.
read ==
    /\ \E loaded \in {read_from(config_file)} :
          /\ server_token' = IF loaded.error = "" THEN loaded.server_token
                             ELSE server_token
          /\ installers' = IF loaded.error = "" THEN loaded.installers
                           ELSE installers
          /\ store_call' = [op |-> "read_from", info |-> NoInfo, token |-> "",
                            result |-> IF loaded.error = "" THEN "Ok" ELSE "Err",
                            before |-> installers,
                            overwrote |-> Overwrote(store_call)]
    /\ UNCHANGED <<config_file, adds_fresh, not_store_vars>>

SaveLoadNext ==
    \/ \E config \in Configs : save_config(config)
    \/ read

\* save(config_info): save_to(config_info, CONFIG_FILE_NAME) of the Config the
\* process holds.  A process that goes on after save gets the Config again,
\* which is the one it saved.
save ==
    /\ config_file' = WriteAll(CreateFile(config_file),
                               save_to(server_token, installers))
    /\ store_call' = StoreCall("save", NoInfo, "", "Ok")
    /\ UNCHANGED <<server_token, installers, adds_fresh, not_store_vars>>

\* Mutant of Get: the file is read whether it exists or not.
GetReadsAlways(file, mac_address) ==
    IF file = <<"absent">> THEN LoadErr("NotFound") ELSE FromStr(file)

\* The Config get() returns: the file's when there is one, else a new one
\* with the host's identifier and no installer.
Get(file, mac_address) ==
    IF file # NoFile THEN read_from(file) ELSE LoadOk(mac_address, <<>>)

\* get(), on a host whose interface has the given MAC address.
get(mac_address) ==
    /\ \E loaded \in {Get(config_file, mac_address)} :
          /\ server_token' = IF loaded.error = "" THEN loaded.server_token
                             ELSE server_token
          /\ installers' = IF loaded.error = "" THEN loaded.installers
                           ELSE installers
          /\ first_token' = IF first_token = NoToken /\ loaded.error = ""
                            THEN loaded.server_token
                            ELSE first_token
          /\ store_call' = [op |-> "get", info |-> NoInfo, token |-> mac_address,
                            result |-> IF loaded.error = "" THEN "Ok" ELSE "Err",
                            before |-> installers]
    /\ UNCHANGED <<config_file, adds_fresh, dl_vars, uz_vars, proc_vars>>

ConfigNext ==
    \/ \E mac_address \in MacAddresses : get(mac_address)
    \/ \E installer_info \in SavedInfos : add_installer(installer_info)
    \/ \E installer_token \in InstallerTokens : remove_installer(installer_token)
    \/ save

----------------------------------------------------------------------------
(* Two installer processes on one config file: get, add_installer, save *)

Procs == {"p1", "p2"}

\* The installer each process registers: its own token and its own port.
ProcInfo(p) ==
    IF p = "p1" THEN InstallerInfoOf("2", 6) ELSE InstallerInfoOf("22", 66)

NotLoaded == [branch |-> "none", file |-> NoFile, loaded |-> LoadErr("")]

ProcInit ==
    /\ pc = [p \in Procs |-> "get"]
    /\ proc_config = [p \in Procs |-> LoadErr("")]
    /\ proc_load = [p \in Procs |-> NotLoaded]
    /\ persisted = {}

\* get(), first half: config_path.exists().  Without a file the Config is
\* built from the host's identifier.
proc_get(p, mac_address) ==
    /\ pc[p] = "get"
    /\ IF config_file # NoFile
       THEN /\ pc' = [pc EXCEPT ![p] = "read_from"]
            /\ UNCHANGED <<proc_config, proc_load>>
       ELSE /\ pc' = [pc EXCEPT ![p] = "add_installer"]
            /\ proc_config' = [proc_config EXCEPT ![p] = LoadOk(mac_address, <<>>)]
            /\ proc_load' = [proc_load EXCEPT ![p] =
                                [branch |-> "absent", file |-> NoFile,
                                 loaded |-> LoadOk(mac_address, <<>>)]]
    /\ UNCHANGED <<persisted, store_vars, dl_vars, uz_vars, first_token>>

\* get(), second half: read_from(CONFIG_FILE_NAME); an Err ends the process.
proc_read_from(p) ==
    /\ pc[p] = "read_from"
    /\ \E loaded \in {read_from(config_file)} :
          /\ pc' = [pc EXCEPT ![p] = IF loaded.error = "" THEN "add_installer"
                                     ELSE "failed"]
          /\ proc_config' = [proc_config EXCEPT ![p] = loaded]
          /\ proc_load' = [proc_load EXCEPT ![p] =
                              [branch |-> "file", file |-> config_file,
                               loaded |-> loaded]]
    /\ UNCHANGED <<persisted, store_vars, dl_vars, uz_vars, first_token>>

\* add_installer(&mut config, installer_info) on the Config the process holds.
proc_add_installer(p) ==
    /\ pc[p] = "add_installer"
    /\ pc' = [pc EXCEPT ![p] = "File::create"]
    /\ proc_config' = [proc_config EXCEPT ![p].installers =
                          PushInstaller(proc_config[p].installers, ProcInfo(p))]
    /\ UNCHANGED <<proc_load, persisted, store_vars, dl_vars, uz_vars, first_token>>

\* save, first half: File::create(file_name) creates or truncates the file.
proc_create(p) ==
    /\ pc[p] = "File::create"
    /\ pc' = [pc EXCEPT ![p] = "write_all"]
    /\ config_file' = CreateFile(config_file)
    /\ UNCHANGED <<proc_config, proc_load, persisted, server_token, installers,
                   store_call, adds_fresh, dl_vars, uz_vars, first_token>>

\* save, second half: write_all(toml_content).
proc_write_all(p) ==
    /\ pc[p] = "write_all"
    /\ pc' = [pc EXCEPT ![p] = "done"]
    /\ config_file' = WriteAll(config_file,
                               save_to(proc_config[p].server_token,
                                       proc_config[p].installers))
    /\ persisted' = persisted \cup {save_to(proc_config[p].server_token,
                                            proc_config[p].installers)}
    /\ UNCHANGED <<proc_config, proc_load, server_token, installers,
                   store_call, adds_fresh, dl_vars, uz_vars, first_token>>

ProcNext ==
    \/ \E p \in Procs, mac_address \in MacAddresses : proc_get(p, mac_address)
    \/ \E p \in Procs : proc_read_from(p)
    \/ \E p \in Procs : proc_add_installer(p)
    \/ \E p \in Procs : proc_create(p)
    \/ \E p \in Procs : proc_write_all(p)

----------------------------------------------------------------------------
(* Artifact cache: download, lib.rs *)

ROOT_PATH_SOFTWARE == "softwares"

SoftwareNames == {"app", "jdk"}

SoftwareVersions == {"0.1.0"}

SoftwareFileNames == {"app-0.1.0.zip", "copy.zip"}

\* The status codes the server answers with.
Statuses == {200, 299, 300, 404}

\* format!("{}/{}/{}", ROOT_PATH_SOFTWARE, software_name, software_version):
\* a path is the sequence of its components (the names hold no '/').
SavedDirPath(software_name, software_version) ==
    <<ROOT_PATH_SOFTWARE, software_name, software_version>>

\* format!("{}/{}", saved_dir_path, software_file_name)
SavedFilePath(software_name, software_version, software_file_name) ==
    SavedDirPath(software_name, software_version) \o <<software_file_name>>

\* format!("{}/softwares?name={}&version={}", URL, ..): what the GET asks for.
Url(software_name, software_version) ==
    <<"softwares", <<"name", software_name>>, <<"version", software_version>> >>

\* The artifact the server holds for a request, as the chunks it streams.
ServerBody(url) == <<url[2][2], url[3][2]>>

\* How much of the body arrives before the transport breaks.
Delivered(body, arrives) ==
    IF arrives = "all" THEN body
    ELSE IF arrives = "half" THEN SubSeq(body, 1, Len(body) \div 2)
    ELSE <<>>

\* fs::create_dir_all: the directory and every ancestor of it.
CreateDirAll(dirs, path) == dirs \cup {SubSeq(path, 1, k) : k \in 1..Len(path)}

\* Mutant of PathExists: the early return is left out.
PathExistsNever(files, path) == FALSE

\* Path::exists
PathExists(files, path) == path \in DOMAIN files

\* Mutant of IsSuccess: only 200 counts.
IsSuccessOnly200(status) == status = 200

\* StatusCode::is_success
IsSuccess(status) == status >= 200 /\ status < 300

\* File::create (create or truncate) followed by a write of the content.
WriteFile(files, path, content) ==
    [q \in DOMAIN files \cup {path} |-> IF q = path THEN content ELSE files[q]]

\* What can happen to one call: a filesystem fault at create_dir_all or at
\* File::create, and the answer to the GET: refused, or a status and how much
\* of the body arrives before the transport breaks.
Faults == {"none", "create_dir_all", "File::create"}

Responses ==
    [connected : BOOLEAN, status : Statuses, arrives : {"nothing", "half", "all"}]

DlCall(name, version, file_name, result, error, requested, status) ==
    [op |-> "download", name |-> name, version |-> version,
     file_name |-> file_name, result |-> result, error |-> error,
     path |-> IF result = "Ok" THEN SavedFilePath(name, version, file_name)
              ELSE <<>>,
     requested |-> requested, status |-> status]

DlInit ==
    /\ dl_dirs = {}
    /\ dl_files = <<>>
    /\ requests = 0
    /\ dl_call = [op |-> "none", name |-> "", version |-> "", file_name |-> "",
                  result |-> "Ok", error |-> "", path |-> <<>>,
                  requested |-> FALSE, status |-> 0]

\* download(software_name, software_version, software_file_name)
download(software_name, software_version, software_file_name, fault, response) ==
    LET saved_dir_path == SavedDirPath(software_name, software_version)
        saved_file_path ==
            SavedFilePath(software_name, software_version, software_file_name)
        url == Url(software_name, software_version)
        Call(result, error, requested, status) ==
            DlCall(software_name, software_version, software_file_name,
                   result, error, requested, status)
    IN
    /\ UNCHANGED not_dl_vars
    /\ IF fault = "create_dir_all" /\ saved_dir_path \notin dl_dirs
       THEN \* fs::create_dir_all(saved_dir_path)? fails
            /\ dl_call' = Call("Err", "Filesystem", FALSE, 0)
            /\ UNCHANGED <<dl_dirs, dl_files, requests>>
       ELSE IF PathExists(dl_files, saved_file_path)
       THEN \* the file is there: return its path
            /\ dl_dirs' = CreateDirAll(dl_dirs, saved_dir_path)
            /\ dl_call' = Call("Ok", "", FALSE, 0)
            /\ UNCHANGED <<dl_files, requests>>
       ELSE /\ requests < MaxRequests
            /\ dl_dirs' = CreateDirAll(dl_dirs, saved_dir_path)
            /\ requests' = requests + 1
            /\ IF ~response.connected
               THEN \* reqwest::get(url)? fails
                    /\ dl_call' = Call("Err", "Transport", TRUE, 0)
                    /\ UNCHANGED dl_files
               ELSE IF ~IsSuccess(response.status)
               THEN \* the status is printed, the path is returned
                    /\ dl_call' = Call("Ok", "", TRUE, response.status)
                    /\ UNCHANGED dl_files
               ELSE IF fault = "File::create"
               THEN /\ dl_call' = Call("Err", "Filesystem", TRUE, response.status)
                    /\ UNCHANGED dl_files
               ELSE IF response.arrives # "all"
               THEN \* response.copy_to(&mut file)? fails part way
                    /\ dl_files' = WriteFile(dl_files, saved_file_path,
                           Delivered(ServerBody(url), response.arrives))
                    /\ dl_call' = Call("Err", "Transport", TRUE, response.status)
               ELSE /\ dl_files' = WriteFile(dl_files, saved_file_path, ServerBody(url))
                    /\ dl_call' = Call("Ok", "", TRUE, response.status)

DlNext ==
    \E software_name \in SoftwareNames, software_version \in SoftwareVersions,
       software_file_name \in SoftwareFileNames,
       fault \in Faults, response \in Responses :
        download(software_name, software_version, software_file_name,
                 fault, response)

----------------------------------------------------------------------------
(* Archive extractor: unzip_to and unzip_file, lib.rs *)

\* A path is the sequence of its components as written: names, "." (the
\* current directory), ".." and "/" (the root of an absolute path).

IsNotCurDir(component) == component # "."

IsNormal(component) == component \notin {".", "..", "/"}

\* Where the filesystem finds a relative path without "..": the "." are skipped.
Resolve(path) == SelectSeq(path, IsNotCurDir)

\* Path::components, which Path's == compares: a "." is dropped unless it
\* starts the path.
Components(path) ==
    IF path # <<>> /\ Head(path) = "."
    THEN <<".">> \o Resolve(Tail(path))
    ELSE Resolve(path)

\* Path::file_name
FileName(path) == path[Len(path)]

\* Path::parent
Parent(path) == SubSeq(path, 1, Len(path) - 1)

\* Path::join: an absolute path replaces the base.
Join(base, path) ==
    IF path # <<>> /\ Head(path) = "/" THEN path ELSE base \o path

\* Mutant of SanitizedName: only the "." components are dropped.
SanitizedNameKeepsRoot(name) == SelectSeq(name, IsNotCurDir)

\* ZipFile::sanitized_name: the Normal components of the entry's name.
SanitizedName(name) == SelectSeq(name, IsNormal)

\* File contents: plain data, or a zip archive with its entries.
Data(bytes) == [zip |-> FALSE, entries |-> <<>>, data |-> bytes]

Zip(entries) == [zip |-> TRUE, entries |-> entries, data |-> ""]

\* An archive entry: its name as written, whether the name ends with '/',
\* its bytes and its stored unix mode ("": none stored).
Entry(name, is_dir, bytes, mode) ==
    [name |-> name, is_dir |-> is_dir, data |-> bytes, mode |-> mode]

\* The mode of a newly created file, and the mode of an executable.
DefaultMode == "644"

ExecMode == "755"

\* Filesystem nodes.
Absent == [kind |-> "absent", content |-> Data(""), mode |-> ""]

Dir == [kind |-> "dir", content |-> Data(""), mode |-> ExecMode]

File(content, mode) == [kind |-> "file", content |-> content, mode |-> mode]

Lookup(fs, path) ==
    IF Resolve(path) \in DOMAIN fs THEN fs[Resolve(path)] ELSE Absent

Put(fs, path, node) ==
    [q \in DOMAIN fs \cup {Resolve(path)} |->
        IF q = Resolve(path) THEN node ELSE fs[q]]

Prefixes(path) == {SubSeq(path, 1, k) : k \in 0..Len(path)}

\* An injected failure: the step that fails and, for the steps of the entry
\* loop, the entry it fails at.
NoFault == [step |-> "none", at |-> 0]

UzFaults ==
    {NoFault}
    \cup [step : {"create_dir_all", "copy", "open", "remove_file"}, at : {0}]
    \cup [step : {"by_index", "io::copy", "set_permissions"}, at : 1..MaxEntries]

\* The outcome of a step: the tree it leaves and its error ("": none).
Done(fs, error) == [fs |-> fs, error |-> error]

\* fs::create_dir_all: every missing ancestor becomes a directory; it fails
\* when a file is in the way.
create_dir_all(fs, path) ==
    IF \E q \in Prefixes(Resolve(path)) : Lookup(fs, q).kind = "file"
    THEN Done(fs, "Filesystem")
    ELSE Done([q \in DOMAIN fs \cup Prefixes(Resolve(path)) |->
                    IF q \in DOMAIN fs THEN fs[q] ELSE Dir], "")

\* File::create: a new empty file, or the existing file truncated; it fails
\* on a directory and where the parent is no directory.
FileCreate(fs, path) ==
    IF \/ Resolve(path) = <<>>
       \/ Lookup(fs, path).kind = "dir"
       \/ Lookup(fs, Parent(Resolve(path))).kind # "dir"
    THEN Done(fs, "Filesystem")
    ELSE Done(Put(fs, path,
                  File(Data(""),
                       IF Lookup(fs, path).kind = "file"
                       THEN Lookup(fs, path).mode ELSE DefaultMode)), "")

\* The write of fs::copy, the destination having been created: the bytes
\* read from the source and the source's mode.
CopyInto(created, to, content, mode) ==
    IF created.error # "" THEN created
    ELSE Done(Put(created.fs, to, File(content, mode)), "")

\* fs::copy(from, to): the source is opened, the destination is created or
\* truncated, then the bytes are copied.  When both name one file, the
\* truncation empties it before anything is read.
FsCopy(fs, from, to) ==
    IF Lookup(fs, from).kind # "file"
    THEN Done(fs, "Filesystem")
    ELSE CopyInto(FileCreate(fs, to), to,
                  IF Resolve(from) = Resolve(to) THEN Data("")
                  ELSE Lookup(fs, from).content,
                  Lookup(fs, from).mode)

\* fs::remove_file
RemoveFile(fs, path) ==
    IF Lookup(fs, path).kind # "file"
    THEN Done(fs, "Filesystem")
    ELSE Done([q \in DOMAIN fs \ {Resolve(path)} |-> fs[q]], "")

\* fs::set_permissions(&out_path, ..) when the entry stores a unix mode.
SetEntryMode(fs, file, out_path, fails) ==
    IF file.mode = "" THEN Done(fs, "")
    ELSE IF fails THEN Done(fs, "Filesystem")
    ELSE Done(Put(fs, out_path, [Lookup(fs, out_path) EXCEPT !.mode = file.mode]),
              "")

\* A directory entry, create_dir_all having answered `made`.
DirEntry(made, file, out_path, mode_fails) ==
    IF made.error # "" THEN made
    ELSE SetEntryMode(made.fs, file, out_path, mode_fails)

\* A file entry, File::create having answered `made`: io::copy writes the
\* entry's bytes into the new file.
FileEntry(made, file, out_path, copy_fails, mode_fails) ==
    IF made.error # "" THEN made
    ELSE IF copy_fails THEN Done(made.fs, "Filesystem")
    ELSE SetEntryMode(Put(made.fs, out_path,
                          File(Data(file.data), Lookup(made.fs, out_path).mode)),
                      file, out_path, mode_fails)

\* if !p.exists() { fs::create_dir_all(&p)?; } for the parent of out_path; a
\* failure here leaves no directory for File::create, which fails in turn.
WithParent(fs, out_path) ==
    IF Lookup(fs, Parent(Resolve(out_path))).kind = "absent"
    THEN create_dir_all(fs, Parent(Resolve(out_path))).fs
    ELSE fs

\* One pass of the loop of unzip_file, for entry i of the archive opened at
\* source_file_path and unpacked to out_path.  An entry unpacked onto the
\* archive itself truncates it in File::create, and io::copy then finds none
\* of the entry's bytes: it fails unless the entry is empty.
ExtractEntry(fs, archive, i, source_file_path, out_path, fault) ==
    IF \/ fault.step = "by_index" /\ fault.at = i
       \/ Lookup(fs, source_file_path).content # archive
    THEN \* archive.by_index(i)?: the entry cannot be read from the file
         Done(fs, "Malformed")
    ELSE IF archive.entries[i].is_dir
    THEN DirEntry(create_dir_all(fs, out_path), archive.entries[i], out_path,
                  fault.step = "set_permissions" /\ fault.at = i)
    ELSE FileEntry(FileCreate(WithParent(fs, out_path), out_path),
                   archive.entries[i], out_path,
                   \/ fault.step = "io::copy" /\ fault.at = i
                   \/ /\ Resolve(out_path) = Resolve(source_file_path)
                      /\ archive.entries[i].data # "",
                   fault.step = "set_permissions" /\ fault.at = i)

\* parent_dir.join(&file.sanitized_name())
OutPath(source_file_path, file) ==
    Join(Parent(source_file_path), SanitizedName(file.name))

RECURSIVE ExtractFrom(_, _, _, _, _)

\* The loop of unzip_file after entry i: an error ends it.
NextEntry(step, archive, i, source_file_path, fault) ==
    IF step.error # "" THEN step
    ELSE ExtractFrom(step.fs, archive, i + 1, source_file_path, fault)

\* for i in 0..archive.len(), from entry i on.
ExtractFrom(fs, archive, i, source_file_path, fault) ==
    IF i > Len(archive.entries) THEN Done(fs, "")
    ELSE NextEntry(ExtractEntry(fs, archive, i, source_file_path,
                                OutPath(source_file_path, archive.entries[i]),
                                fault),
                   archive, i, source_file_path, fault)

\* unzip_file(source_file_path): the archive is unpacked into its own directory.
unzip_file(fs, source_file_path, fault) ==
    IF fault.step = "open" \/ Lookup(fs, source_file_path).kind # "file"
    THEN Done(fs, "Filesystem")
    ELSE IF ~Lookup(fs, source_file_path).content.zip
    THEN Done(fs, "Malformed")
    ELSE ExtractFrom(fs, Lookup(fs, source_file_path).content, 1,
                     source_file_path, fault)

\* Path::new(target_dir_path).join(file_name)
TargetPath(source_file_path, target_dir_path) ==
    Join(target_dir_path, <<FileName(source_file_path)>>)

\* let is_in_same_dir = source_path == target_path;
IsInSameDir(source_file_path, target_dir_path) ==
    Components(source_file_path)
        = Components(TargetPath(source_file_path, target_dir_path))

\* Mutant of AfterUnzip: the copy is left in the target directory.
AfterUnzipKeepsCopy(unzipped, target_path, is_in_same_dir, fault) == unzipped

\* unzip_to after unzip_file: the copy in the target directory is removed.
AfterUnzip(unzipped, target_path, is_in_same_dir, fault) ==
    IF unzipped.error # "" \/ is_in_same_dir THEN unzipped
    ELSE IF fault.step = "remove_file" THEN Done(unzipped.fs, "Filesystem")
    ELSE RemoveFile(unzipped.fs, target_path)

\* unzip_to after fs::copy: the copy is unpacked.
AfterCopy(copied, target_path, fault) ==
    IF copied.error # "" THEN copied
    ELSE AfterUnzip(unzip_file(copied.fs, target_path, fault), target_path,
                    FALSE, fault)

\* unzip_to after fs::create_dir_all: the archive is copied into the directory.
AfterCreateDir(dir_made, source_file_path, target_path, fault) ==
    IF dir_made.error # "" THEN dir_made
    ELSE IF fault.step = "copy" THEN Done(dir_made.fs, "Filesystem")
    ELSE AfterCopy(FsCopy(dir_made.fs, source_file_path, target_path),
                   target_path, fault)

\* The body of unzip_to: the tree it leaves and the error it returns ("": Ok).
UnzipTo(fs, source_file_path, target_dir_path, fault) ==
    IF IsInSameDir(source_file_path, target_dir_path)
    THEN AfterUnzip(unzip_file(fs, TargetPath(source_file_path, target_dir_path),
                               fault),
                    TargetPath(source_file_path, target_dir_path), TRUE, fault)
    ELSE IF fault.step = "create_dir_all" THEN Done(fs, "Filesystem")
    ELSE AfterCreateDir(create_dir_all(fs, target_dir_path), source_file_path,
                        TargetPath(source_file_path, target_dir_path), fault)

\* The archives on disk: the test's archive, one with a directory, an
\* executable and an entry named with "..", one that holds an entry named like
\* the archive itself, one with an entry named by an absolute path, one named
\* with ".." and an empty one named like the archive, and a file that is no
\* archive.
HelloZip == Zip(<<Entry(<<"hello_world.txt">>, FALSE, "Hello, World!", DefaultMode)>>)

TreeZip ==
    Zip(<<Entry(<<"bin">>, TRUE, "", ExecMode),
          Entry(<<"bin", "run">>, FALSE, "run", ExecMode),
          Entry(<<"..", "up.txt">>, FALSE, "up", "")>>)

SelfZip ==
    Zip(<<Entry(<<"test.zip">>, FALSE, "inner", ""),
          Entry(<<"after.txt">>, FALSE, "after", "")>>)

AbsZip ==
    Zip(<<Entry(<<"/", "abs.txt">>, FALSE, "abs", ""),
          Entry(<<"..", "..", "out.txt">>, FALSE, "out", ""),
          Entry(<<"test.zip">>, FALSE, "", "")>>)

SourceContents == {HelloZip, TreeZip, SelfZip, AbsZip, Data("not a zip")}

SourcePaths == {<<"test.zip">>, <<"t", "test.zip">>}

TargetDirs == {<<".">>, <<"t">>}

\* At first the working directory holds test.zip and nothing else.
UzInit(contents) ==
    /\ \E content \in contents :
          uz_fs = (<< >> :> Dir) @@ (<<"test.zip">> :> File(content, DefaultMode))
    /\ uz_call = [op |-> "none", source |-> <<>>, target |-> <<>>,
                  result |-> "Ok", error |-> "", source_before |-> Absent]

\* unzip_to(source_file_path, target_dir_path)
unzip_to(source_file_path, target_dir_path, fault) ==
    \E done \in {UnzipTo(uz_fs, source_file_path, target_dir_path, fault)} :
       /\ uz_fs' = done.fs
       /\ uz_call' = [op |-> "unzip_to", source |-> source_file_path,
                      target |-> target_dir_path,
                      result |-> IF done.error = "" THEN "Ok" ELSE "Err",
                      error |-> done.error,
                      source_before |-> Lookup(uz_fs, source_file_path)]
       /\ UNCHANGED not_uz_vars

UzNext ==
    \E source_file_path \in SourcePaths, target_dir_path \in TargetDirs,
       fault \in UzFaults :
        unzip_to(source_file_path, target_dir_path, fault)

----------------------------------------------------------------------------
(* Specifications *)

\* The store and the cache start empty; the extractor's directory holds the
\* test's archive, or any of the archives when the extractor is what runs.
Init ==
    StoreInit /\ DlInit /\ UzInit({HelloZip}) /\ first_token = NoToken /\ ProcInit

InitUnzip ==
    StoreInit /\ DlInit /\ UzInit(SourceContents) /\ first_token = NoToken
    /\ ProcInit

SpecStore == Init /\ [][StoreNext]_vars

SpecDownload == Init /\ [][DlNext]_vars

SpecUnzip == InitUnzip /\ [][UzNext]_vars

SpecSaveLoad == Init /\ [][SaveLoadNext]_vars

SpecConfig == Init /\ [][ConfigNext]_vars

SpecProcesses == Init /\ [][ProcNext]_vars

SpecLookup == Init /\ [][LookupNext]_vars

----------------------------------------------------------------------------
(* Claims about the installer store *)

InstallerFields ==
    {"url", "installer_token", "app_name", "app_version", "app_file_name",
     "app_run_port", "jdk_name", "jdk_version", "jdk_file_name"}

UniqueTokens(list) ==
    \A i, j \in 1..Len(list) :
        list[i].installer_token = list[j].installer_token => i = j

UniquePorts(list) ==
    \A i, j \in 1..Len(list) :
        list[i].app_run_port = list[j].app_run_port => i = j

HasToken(list, token) == \E i \in 1..Len(list) : list[i].installer_token = token

TokenCount(list, token) ==
    Cardinality({i \in 1..Len(list) : list[i].installer_token = token})

\* C1 as stated: after any sequence of add_installer and remove_installer
\* calls from an empty list, no two records share a token and no two share
\* a port.
C1_UniqueAfterAnyCalls == UniqueTokens(installers) /\ UniquePorts(installers)

\* C1, amended: after any sequence of calls in which every add_installer was
\* given a token and a port that no record then in the store carried, no two
\* records share a token and no two share a port.
C1_UniqueWhenAddsFresh ==
    adds_fresh => UniqueTokens(installers) /\ UniquePorts(installers)

C1_Witness ==
    /\ adds_fresh
    /\ store_call.op = "add_installer"
    /\ Len(store_call.before) = 1
    /\ Len(installers) = 2

\* C2: registering an installer whose port is the port of a record in the
\* store fails with Conflict and leaves the installer list, the server token
\* and the persisted file as they were.
C2_PortConflictKeepsStore ==
    [][(/\ store_call'.op = "register"
        /\ \E i \in 1..Len(installers) :
              installers[i].app_run_port = store_call'.info.app_run_port)
       => /\ store_call'.result = "Conflict"
          /\ installers' = installers
          /\ server_token' = server_token
          /\ config_file' = config_file]_vars

\* A second registration of the very same InstallerInfo, with another record
\* ahead of it in the store.
C2_Witness ==
    /\ store_call.op = "register"
    /\ store_call.result = "Conflict"
    /\ installers = store_call.before
    /\ Len(installers) = 2
    /\ \A f \in InstallerFields : installers[2][f] = store_call.info[f]

\* C8 as stated: remove_installer with a token present in the store reduces
\* the length by exactly 1, and afterwards no record carries that token.
C8_RemovePresentLeavesNone ==
    [][(/\ store_call'.op = "remove_installer"
        /\ HasToken(installers, store_call'.token))
       => /\ Len(installers') = Len(installers) - 1
          /\ ~HasToken(installers', store_call'.token)]_vars

\* C8, amended: remove_installer with a token present in the store reduces
\* the length by exactly 1 by taking out the first record that carries the
\* token, the others keeping their order; afterwards one record fewer carries
\* the token, so none does when exactly one did before.
C8_RemovePresentTakesFirst ==
    [][(/\ store_call'.op = "remove_installer"
        /\ HasToken(installers, store_call'.token))
       => /\ Len(installers') = Len(installers) - 1
          /\ \E k \in 1..Len(installers) :
                /\ installers[k].installer_token = store_call'.token
                /\ \A j \in 1..(k - 1) :
                      installers[j].installer_token # store_call'.token
                /\ \A j \in 1..(k - 1) : installers'[j] = installers[j]
                /\ \A j \in k..Len(installers') : installers'[j] = installers[j + 1]
          /\ TokenCount(installers', store_call'.token)
                = TokenCount(installers, store_call'.token) - 1
          /\ (TokenCount(installers, store_call'.token) = 1
                => ~HasToken(installers', store_call'.token))]_vars

\* A removal from a store where the token's record is not the last one.
C8_Witness ==
    /\ store_call.op = "remove_installer"
    /\ Len(store_call.before) = 3
    /\ store_call.before[2].installer_token = store_call.token
    /\ TokenCount(store_call.before, store_call.token) = 1
    /\ Len(installers) = 2

\* C9: add_installer succeeds and appends exactly one record, equal to the
\* info field for field, at the end: the length grows by 1, the records
\* already present keep their values and order, server_token is unchanged,
\* whether or not the token or port is already in the store.
C9_AddAppendsOne ==
    [][(store_call'.op = "add_installer")
       => /\ store_call'.result = "Ok"
          /\ Len(installers') = Len(installers) + 1
          /\ \A f \in InstallerFields :
                installers'[Len(installers')][f] = store_call'.info[f]
          /\ DOMAIN installers'[Len(installers')] = InstallerFields
          /\ \A i \in 1..Len(installers) : installers'[i] = installers[i]
          /\ server_token' = server_token]_vars

\* An add of a token and port that both occur in the store already.
C9_Witness ==
    /\ store_call.op = "add_installer"
    /\ Len(store_call.before) = 2
    /\ HasToken(store_call.before, store_call.info.installer_token)
    /\ \E i \in 1..2 :
          store_call.before[i].app_run_port = store_call.info.app_run_port
    /\ Len(installers) = 3

\* C10: remove_installer with a token no record carries (the list may be
\* empty) succeeds and changes neither the installer list nor server_token.
C10_RemoveAbsentIsNoOp ==
    [][(/\ store_call'.op = "remove_installer"
        /\ ~HasToken(installers, store_call'.token))
       => /\ store_call'.result = "Ok"
          /\ installers' = installers
          /\ server_token' = server_token]_vars

C10_Witness ==
    /\ store_call.op = "remove_installer"
    /\ ~HasToken(store_call.before, store_call.token)
    /\ Len(store_call.before) = 2
    /\ installers = store_call.before

----------------------------------------------------------------------------
(* Claims about save_to, read_from and get *)

\* C11: a load that follows a save_to returns Ok with the Config that was
\* saved: the same server_token and the same installer sequence, that is the
\* same length and, index by index, the same nine fields.
C11_SaveThenLoadRoundTrips ==
    [][(store_call.op = "save_to" /\ store_call'.op = "read_from") =>
         /\ store_call'.result = "Ok"
         /\ server_token' = store_call.token
         /\ Len(installers') = Len(store_call.before)
         /\ \A i \in 1..Len(store_call.before) :
                \A field \in InstallerFields :
                    installers'[i][field] = store_call.before[i][field]]_vars

\* A load has returned two different records in the order they were saved.
C11_Witness ==
    /\ store_call.op = "read_from"
    /\ store_call.result = "Ok"
    /\ config_file = save_to(server_token, installers)
    /\ Len(installers) = 2
    /\ installers[1] # installers[2]

\* C12: a load that follows a save_to of B onto a file that held A returns
\* exactly B: B's server_token and B's installer sequence, with no record of
\* A that B does not hold.
C12_LastSaveWins ==
    [][(/\ store_call.op = "save_to"
        /\ store_call.overwrote # NoFile
        /\ store_call'.op = "read_from") =>
         /\ store_call'.result = "Ok"
         /\ server_token' = store_call.token
         /\ installers' = store_call.before
         /\ \A i \in 1..Len(read_from(store_call.overwrote).installers) :
                (\A j \in 1..Len(store_call.before) :
                    store_call.before[j] # read_from(store_call.overwrote).installers[i])
                => \A j \in 1..Len(installers') :
                    installers'[j] # read_from(store_call.overwrote).installers[i]]_vars

\* A load has returned B after B replaced a longer store with another token.
C12_Witness ==
    /\ store_call.op = "read_from"
    /\ store_call.result = "Ok"
    /\ store_call.overwrote # NoFile
    /\ read_from(store_call.overwrote).server_token # server_token
    /\ Len(read_from(store_call.overwrote).installers) > Len(installers)
    /\ Len(installers) = 1
    /\ config_file = save_to(server_token, installers)

\* C13: a get() made while there is no config file returns Ok with the host's
\* identifier as server_token and no installer, and leaves the file absent.
C13_GetWithoutFile ==
    [][(store_call'.op = "get" /\ config_file = NoFile) =>
         /\ store_call'.result = "Ok"
         /\ server_token' = store_call'.token
         /\ installers' = <<>>
         /\ config_file' = NoFile]_vars

\* get() has returned a new Config to a process that held installers.
C13_Witness ==
    /\ store_call.op = "get"
    /\ store_call.result = "Ok"
    /\ store_call.before # <<>>
    /\ config_file = NoFile
    /\ server_token = store_call.token
    /\ installers = <<>>

\* C14: once get() has returned a Config, the server_token in memory and the
\* one in the config file are the one that first get() returned.
C14_TokenNeverRegenerated ==
    first_token # NoToken =>
        /\ server_token = first_token
        /\ config_file # NoFile => read_from(config_file).server_token = first_token

\* C18: the config file changes only in a save call, and after a save call it
\* decodes to the Config the process holds, which the call has not changed.
C18_FileFollowsSave ==
    [][/\ config_file' # config_file => store_call'.op = "save"
       /\ store_call'.op = "save" =>
            /\ read_from(config_file') = LoadOk(server_token', installers')
            /\ server_token' = server_token
            /\ installers' = installers]_vars

\* A save has written the two different records of a store that get() returned.
C18_Witness ==
    /\ store_call.op = "save"
    /\ Len(installers) = 2
    /\ installers[1] # installers[2]
    /\ first_token # NoToken
    /\ read_from(config_file) = LoadOk(server_token, installers)

----------------------------------------------------------------------------
(* Claims about two processes on one config file *)

\* C15: every load of the file by either process has found a document that
\* some process had written in full, and has parsed it.
C15_LoadsSeeFullStores ==
    \A p \in Procs :
        proc_load[p].branch = "file" =>
            /\ proc_load[p].file \in persisted
            /\ proc_load[p].loaded.error = ""

\* C19: once both processes have saved, the file decodes to a store that
\* holds the record of each.
C19_BothRecordsKept ==
    (\A p \in Procs : pc[p] = "done") =>
        /\ read_from(config_file).error = ""
        /\ \A p \in Procs :
              \E i \in 1..Len(read_from(config_file).installers) :
                  read_from(config_file).installers[i] = InstallerConfig(ProcInfo(p))

----------------------------------------------------------------------------
(* Claims about download *)

\* softwares/<name>/<version>/<file_name> of a call.
CallPath(call) == <<"softwares", call.name, call.version, call.file_name>>

SameArguments(a, b) ==
    /\ a.op = "download" /\ b.op = "download"
    /\ a.name = b.name /\ a.version = b.version /\ a.file_name = b.file_name

Count(flag) == IF flag THEN 1 ELSE 0

\* C3 as stated: of two consecutive download calls with the same arguments,
\* exactly one issues an HTTP GET, and the second returns the path the first
\* returned without a request, whatever the first call received.
C3_SecondCallNeverRequests ==
    [][SameArguments(dl_call, dl_call')
       => /\ Count(dl_call.requested) + Count(dl_call'.requested) = 1
          /\ requests' = requests
          /\ dl_call'.result = "Ok"
          /\ dl_call'.path = dl_call.path]_vars

\* C3, amended: of two consecutive download calls with the same arguments,
\* when the first issued a GET, received a 2xx status and returned Ok (the
\* body was written), exactly one GET is issued in total and the second call
\* returns the same path without a request; when the first issued a GET and
\* left no file, the second issues a GET of its own.
C3_SecondCallCached ==
    [][/\ (/\ SameArguments(dl_call, dl_call')
           /\ dl_call.requested
           /\ dl_call.status \in 200..299
           /\ dl_call.result = "Ok")
          => /\ Count(dl_call.requested) + Count(dl_call'.requested) = 1
             /\ requests' = requests
             /\ dl_call'.result = "Ok"
             /\ dl_call'.path = dl_call.path
             /\ dl_call'.path = CallPath(dl_call')
       /\ (/\ SameArguments(dl_call, dl_call')
           /\ dl_call.requested
           /\ CallPath(dl_call) \notin DOMAIN dl_files)
          => /\ dl_call'.requested
             /\ requests' = requests + 1]_vars

\* The second of two equal calls, the first of which downloaded the file.
C3_Witness ==
    /\ dl_call.op = "download"
    /\ ~dl_call.requested
    /\ dl_call.result = "Ok"
    /\ requests = 1
    /\ DOMAIN dl_files = {CallPath(dl_call)}
    /\ dl_files[CallPath(dl_call)] = <<dl_call.name, dl_call.version>>

\* C4: when the GET of a download receives a non-2xx status, download returns
\* a failure to its caller, not a path.
C4_NonSuccessIsFailure ==
    (dl_call.op = "download" /\ dl_call.requested
        /\ dl_call.status # 0 /\ dl_call.status \notin 200..299)
    => dl_call.result = "Err"

\* C5: whenever a download call returns Ok(path), the file at path exists and
\* holds the complete body of a 2xx response for that name and version.
C5_OkPathIsComplete ==
    (dl_call.op = "download" /\ dl_call.result = "Ok")
    => /\ dl_call.path \in DOMAIN dl_files
       /\ dl_files[dl_call.path] = <<dl_call.name, dl_call.version>>

\* C6: a download call that finds a file at softwares/<name>/<version>/
\* <file_name> returns that path, issues no request and leaves the file as it
\* is; no download call changes or removes a file that exists.
C6_CachedFileUntouched ==
    [][/\ (dl_call'.op = "download" /\ CallPath(dl_call') \in DOMAIN dl_files)
            => /\ dl_call'.result = "Ok"
               /\ dl_call'.path = CallPath(dl_call')
               /\ ~dl_call'.requested
               /\ requests' = requests
               /\ dl_files' = dl_files
       /\ \A path \in DOMAIN dl_files :
            path \in DOMAIN dl_files' /\ dl_files'[path] = dl_files[path]]_vars

\* A call served from the cache while another file of the same software was
\* downloaded before it.
C6_Witness ==
    /\ dl_call.op = "download"
    /\ ~dl_call.requested
    /\ dl_call.result = "Ok"
    /\ dl_call.path \in DOMAIN dl_files
    /\ Cardinality(DOMAIN dl_files) = 2
    /\ requests = 3

----------------------------------------------------------------------------
(* Claims about unzip_to *)

\* C7: after any unzip_to call, Ok or Err, whatever the source path and the
\* target directory (the source's own directory included), the file at
\* source_file_path still exists with the content it had.
C7_SourceArchiveKept ==
    [][(/\ uz_call'.op = "unzip_to"
        /\ Lookup(uz_fs, uz_call'.source).kind = "file")
       => /\ Lookup(uz_fs', uz_call'.source).kind = "file"
          /\ Lookup(uz_fs', uz_call'.source).content
                = Lookup(uz_fs, uz_call'.source).content]_vars

\* The entries of the archive a call was made on, and where the call has to
\* unpack entry i: its sanitized name under the target directory.
EntriesOf(call) == call.source_before.content.entries

EntryPath(call, i) == Join(call.target, SanitizedName(EntriesOf(call)[i].name))

\* Entry i of the call's archive is in the tree: a directory for a directory
\* entry, a file with the entry's bytes for a file entry.
Extracted(fs, call, i) ==
    IF EntriesOf(call)[i].is_dir
    THEN Lookup(fs, EntryPath(call, i)).kind = "dir"
    ELSE /\ Lookup(fs, EntryPath(call, i)).kind = "file"
         /\ Lookup(fs, EntryPath(call, i)).content = Data(EntriesOf(call)[i].data)

\* C16: when unzip_to returns Ok, every file entry of the archive is a file
\* at its path under the target directory with the entry's bytes, and every
\* directory entry is a directory there.
C16_EveryEntryExtracted ==
    [][(uz_call'.op = "unzip_to" /\ uz_call'.result = "Ok") =>
         \A i \in 1..Len(EntriesOf(uz_call')) : Extracted(uz_fs', uz_call', i)]_vars

\* Whether the path is the directory or lies in it.
Under(path, dir) ==
    Len(path) >= Len(dir) /\ SubSeq(path, 1, Len(dir)) = dir

\* C17: whatever the entries are named, unzip_to leaves every path that is
\* not the target directory or inside it as it was: nothing is created,
\* written or removed there.
C17_WritesOnlyUnderTarget ==
    [][uz_call'.op = "unzip_to" =>
         \A path \in DOMAIN uz_fs \cup DOMAIN uz_fs' :
             ~Under(path, Resolve(uz_call'.target)) =>
                 Lookup(uz_fs', path) = Lookup(uz_fs, path)]_vars

\* The entries named "/abs.txt" and "../../out.txt" have been unpacked into t,
\* and nothing was written at the places the names point to.
C17_Witness ==
    /\ uz_call.op = "unzip_to"
    /\ uz_call.result = "Ok"
    /\ uz_call.target = <<"t">>
    /\ uz_call.source_before.content = AbsZip
    /\ Lookup(uz_fs, <<"t", "abs.txt">>).content = Data("abs")
    /\ Lookup(uz_fs, <<"t", "out.txt">>).content = Data("out")
    /\ Lookup(uz_fs, <<"/", "abs.txt">>).kind = "absent"
    /\ Lookup(uz_fs, <<"abs.txt">>).kind = "absent"
    /\ Lookup(uz_fs, <<"out.txt">>).kind = "absent"

\* The call copies the archive: the source is a file outside the target
\* directory.
CopiesArchive(call) ==
    /\ call.source_before.kind = "file"
    /\ ~IsInSameDir(call.source, call.target)
    /\ Resolve(call.source) # Resolve(TargetPath(call.source, call.target))

\* The path of entry i is as it was before the call, or is the path of the
\* copy.
Untouched(call, i) ==
    \/ Resolve(EntryPath(call, i)) = Resolve(TargetPath(call.source, call.target))
    \/ Lookup(uz_fs', EntryPath(call, i)) = Lookup(uz_fs, EntryPath(call, i))

\* C20: for a call that copies the archive into the target directory: after
\* Ok the directory holds no file named like the archive, unless an entry has
\* that name; after Err no path that existed is gone, the copy is still there
\* when an entry's path was touched, and the entries before some entry are
\* unpacked while no entry after it is touched.
C20_CopyRemovedOnlyOnSuccess ==
    [][(uz_call'.op = "unzip_to" /\ CopiesArchive(uz_call')) =>
         /\ (/\ uz_call'.result = "Ok"
             /\ \A i \in 1..Len(EntriesOf(uz_call')) :
                    SanitizedName(EntriesOf(uz_call')[i].name)
                        # <<FileName(uz_call'.source)>>)
            => Lookup(uz_fs', TargetPath(uz_call'.source, uz_call'.target)).kind
                   = "absent"
         /\ uz_call'.result = "Err" =>
              /\ \A path \in DOMAIN uz_fs : Lookup(uz_fs', path).kind # "absent"
              /\ (\E i \in 1..Len(EntriesOf(uz_call')) : ~Untouched(uz_call', i))
                 => Lookup(uz_fs', TargetPath(uz_call'.source, uz_call'.target)).kind
                        = "file"
              /\ \E k \in 0..Len(EntriesOf(uz_call')) :
                    /\ \A i \in 1..k : Extracted(uz_fs', uz_call', i)
                    /\ \A i \in (k + 2)..Len(EntriesOf(uz_call')) :
                          Untouched(uz_call', i)]_vars

\* io::copy has failed at the second entry: the copy and the directory of the
\* first entry are there, the second entry's file is empty, the third entry
\* is not unpacked.
C20_Witness ==
    /\ uz_call.op = "unzip_to"
    /\ uz_call.result = "Err"
    /\ uz_call.source = <<"test.zip">>
    /\ uz_call.target = <<"t">>
    /\ Lookup(uz_fs, <<"t", "test.zip">>).content = TreeZip
    /\ Lookup(uz_fs, <<"t", "bin">>).kind = "dir"
    /\ Lookup(uz_fs, <<"t", "bin", "run">>).content = Data("")
    /\ Lookup(uz_fs, <<"t", "up.txt">>).kind = "absent"

----------------------------------------------------------------------------
(* Claims about get_installer_by_port *)

\* C21: get_installer_by_port returns a record exactly when some record of the
\* list is bound to the port; the record returned is the one at the lowest
\* index among those bound to the port; the call leaves the server_token, the
\* installer list and the config file as they were.
C21_FirstRecordOfPort ==
    [][store_call'.op = "get_installer_by_port" =>
         /\ store_call'.result # NoInstaller
            <=> \E i \in 1..Len(installers) :
                    installers[i].app_run_port = store_call'.port
         /\ store_call'.result # NoInstaller =>
                \E i \in 1..Len(installers) :
                    /\ installers[i].app_run_port = store_call'.port
                    /\ \A j \in 1..(i - 1) :
                          installers[j].app_run_port # store_call'.port
                    /\ \A field \in InstallerFields :
                          store_call'.result[field] = installers[i][field]
         /\ installers' = installers
         /\ server_token' = server_token
         /\ config_file' = config_file]_vars

\* A lookup has passed over the first record and returned the second, which
\* has the same port as the third and another token.
C21_Witness ==
    /\ store_call.op = "get_installer_by_port"
    /\ Len(installers) = 3
    /\ installers[1].app_run_port # store_call.port
    /\ installers[2].app_run_port = store_call.port
    /\ installers[3].app_run_port = store_call.port
    /\ installers[2].installer_token # installers[3].installer_token
    /\ store_call.result = installers[2]
    /\ store_call.before = installers

====
